---------------------------- MODULE Spec2Model ----------------------------
(***************************************************************************)
(* data-store: a JSON document kept in memory, addressed by dotted keys    *)
(* and persisted to one file through a debounced write timer.              *)
(*                                                                         *)
(* The Store modelled here is the class of src/unnamed/part_001, lines     *)
(* 231-588 (the version with `namespace` and `this.timeouts`), over the    *)
(* accessor functions get/set/del/hasOwn/split of src/index.js, lines      *)
(* 430-481, and exports.hasOwn/exports.del of src/utils.js.                *)
(*                                                                         *)
(* JavaScript values are tagged records.  A property name (a JavaScript    *)
(* string that the code splits and joins) is a sequence of one-character   *)
(* strings; a scalar string value is an opaque TLA+ string.  Objects are   *)
(* values, not references: the model covers the programs in which no       *)
(* object is reachable from the document along two different paths (the    *)
(* caller passes fresh literals, and the defaults hold scalars only).      *)
(* Property names are drawn from the characters a, b, dot and backslash,   *)
(* so no key names an inherited property (constructor, __proto__, length). *)
(***************************************************************************)
EXTENDS Integers, Sequences, FiniteSets, TLC

(***************************************************************************)
(* JavaScript values                                                       *)
(***************************************************************************)
Undefined == [t |-> "undefined"]

Null == [t |-> "null"]

Str(s) == [t |-> "string", v |-> s]

Num(n) == [t |-> "number", v |-> n]

Bool(b) == [t |-> "boolean", v |-> b]

Arr(s) == [t |-> "array", v |-> s]

Obj(f) == [t |-> "object", v |-> f]

EmptyMap == [k \in {} |-> Undefined]

\* {k1: v1}, {k1: v1, k2: v2}
Obj1(k, x) == Obj([p \in {k} |-> x])

Obj2(k1, x1, k2, x2) == Obj([p \in {k1, k2} |-> IF p = k1 THEN x1 ELSE x2])

\* utils.typeOf: 'null', 'undefined', 'array', else typeof
typeOf(value) == value.t

isObject(value) == typeOf(value) = "object"

\* x == null
isNullish(x) == x.t \in {"undefined", "null"}

\* !x for the JSON values and undefined
Falsy(x) ==
  \/ isNullish(x)
  \/ x = Bool(FALSE)
  \/ x = Num(0)
  \/ x = Str("")

\* o[k]: the own property k of an object; undefined on any other (non-null)
\* value, whose properties the key alphabet never names
Prop(o, k) == IF isObject(o) /\ k \in DOMAIN o.v THEN o.v[k] ELSE Undefined

\* o.hasOwnProperty(k)
hasOwnProperty(o, k) == isObject(o) /\ k \in DOMAIN o.v

\* o[k] = x on an object o
Assign(o, k, x) ==
  Obj([p \in (DOMAIN o.v) \cup {k} |-> IF p = k THEN x ELSE o.v[p]])

\* delete o[k] on an object o
Delete(o, k) == Obj([p \in (DOMAIN o.v) \ {k} |-> o.v[p]])

(***************************************************************************)
(* Strings: split and join                                                 *)
(***************************************************************************)
Dot == "."

Backslash == "\\"

\* the position of the first dot of str, 0 when it has none
IndexOfDot(str) ==
  IF \E i \in 1..Len(str) : str[i] = Dot
  THEN CHOOSE i \in 1..Len(str) :
         str[i] = Dot /\ \A j \in 1..(i - 1) : str[j] # Dot
  ELSE 0

\* str.split('.')
RECURSIVE StringSplit(_)
StringSplit(str) ==
  LET i == IndexOfDot(str)
  IN IF i = 0
     THEN <<str>>
     ELSE <<SubSeq(str, 1, i - 1)>> \o StringSplit(SubSeq(str, i + 1, Len(str)))

\* segs.join('.')
RECURSIVE StringJoin(_)
StringJoin(segs) ==
  IF Len(segs) = 0 THEN <<>>
  ELSE IF Len(segs) = 1 THEN segs[1]
  ELSE segs[1] \o <<Dot>> \o StringJoin(Tail(segs))

\* the loop of split: while segs[i] ends with a backslash, replace the
\* backslash by a dot and append the next segment (spliced out of segs; the
\* empty string when there is none)
RECURSIVE SplitLoop(_, _)
SplitLoop(segs, i) ==
  IF i > Len(segs) THEN segs
  ELSE IF segs[i] # <<>> /\ segs[i][Len(segs[i])] = Backslash
  THEN LET next == IF i < Len(segs) THEN segs[i + 1] ELSE <<>>
           merged == SubSeq(segs[i], 1, Len(segs[i]) - 1) \o <<Dot>> \o next
       IN SplitLoop(SubSeq(segs, 1, i - 1) \o <<merged>>
                      \o SubSeq(segs, i + 2, Len(segs)), i)
  ELSE SplitLoop(segs, i + 1)

split(str) == SplitLoop(StringSplit(str), 1)

(***************************************************************************)
(* The accessor functions                                                  *)
(***************************************************************************)
\* split(prop).reduce((acc, k) => acc && acc[k], data)
RECURSIVE GetReduce(_, _, _)
GetReduce(acc, segs, i) ==
  IF i > Len(segs) THEN acc
  ELSE GetReduce(IF Falsy(acc) THEN acc ELSE Prop(acc, segs[i]), segs, i + 1)

get(data, prop) ==
  IF isNullish(Prop(data, prop))
  THEN GetReduce(data, split(prop), 1)
  ELSE Prop(data, prop)

\* the reducer of set, from segment i on, on the object acc
RECURSIVE SetReduce(_, _, _, _)
SetReduce(acc, segs, i, val) ==
  LET k == segs[i]
      value0 == IF Len(segs) > i
                THEN (IF Falsy(Prop(acc, k)) THEN Obj(EmptyMap) ELSE Prop(acc, k))
                ELSE val
      value == IF ~isObject(value0) /\ i < Len(segs) THEN Obj(EmptyMap) ELSE value0
  IN Assign(acc, k, IF i < Len(segs) THEN SetReduce(value, segs, i + 1, val) ELSE value)

\* set, were it to assign the property named by the whole of prop
set_Literal(data, prop, val) == Assign(data, prop, val)

\* set(data, prop, val): the document after the call
set(data, prop, val) == SetReduce(data, split(prop), 1, val)

\* the property names leading from data to the value that get(data, prop)
\* returns, when that value is an object
GetPath(data, prop) ==
  IF isNullish(Prop(data, prop)) THEN split(prop) ELSE <<prop>>

\* delete the property path[Len(path)] of the object reached along path
RECURSIVE DeleteAt(_, _)
DeleteAt(o, path) ==
  IF Len(path) = 1 THEN Delete(o, path[1])
  ELSE Assign(o, path[1], DeleteAt(o.v[path[1]], Tail(path)))

\* del(data, prop): [data |-> the document after the call, ret |-> its result]
del(data, prop) ==
  IF prop = <<>> THEN [data |-> data, ret |-> Bool(FALSE)]
  ELSE IF hasOwnProperty(data, prop)
  THEN [data |-> Delete(data, prop), ret |-> Bool(TRUE)]
  ELSE LET all == split(prop)
           last == all[Len(all)]
           segs == SubSeq(all, 1, Len(all) - 1)
           val == IF Len(segs) > 0 THEN get(data, StringJoin(segs)) ELSE data
           path == IF Len(segs) > 0 THEN GetPath(data, StringJoin(segs)) ELSE <<>>
       IN IF isObject(val) /\ hasOwnProperty(val, last)
          THEN [data |-> DeleteAt(data, path \o <<last>>), ret |-> Bool(TRUE)]
          ELSE [data |-> data, ret |-> Undefined]

\* hasOwn of src/index.js
hasOwn(data, prop) ==
  IF prop = <<>> THEN FALSE
  ELSE IF hasOwnProperty(data, prop) THEN TRUE
  ELSE IF IndexOfDot(prop) = 0 THEN FALSE
  ELSE LET all == split(prop)
           last == all[Len(all)]
           segs == SubSeq(all, 1, Len(all) - 1)
           val == IF Len(segs) > 0 THEN get(data, StringJoin(segs)) ELSE data
       IN isObject(val) /\ hasOwnProperty(val, last)

\* exports.hasOwn of src/utils.js, the one the Store calls
utils_hasOwn(obj, prop) ==
  IF prop = <<>> THEN FALSE
  ELSE IF hasOwnProperty(obj, prop) THEN TRUE
  ELSE LET all == split(prop)
           last == all[Len(all)]
           segs == SubSeq(all, 1, Len(all) - 1)
       IN IF Len(segs) = 0 THEN FALSE
          ELSE LET val == get(obj, StringJoin(segs))
               IN isObject(val) /\ hasOwnProperty(val, last)


\* exports.isEmptyPrimitive
isEmptyPrimitive(value) == value = Str("") \/ value = Undefined \/ value = Null

\* [].concat(x): the elements of an array, or the one value
ArrayConcat(x) == IF typeOf(x) = "array" THEN x.v ELSE <<x>>

\* exports.flatten: [].concat.apply([], args)
RECURSIVE flatten(_)
flatten(args) ==
  IF Len(args) = 0 THEN <<>>
  ELSE ArrayConcat(args[1]) \o flatten(Tail(args))

\* a === b for two elements at different positions: scalars by value, objects
\* and arrays by identity (two different elements are never the same object)
StrictEquals(a, b) == typeOf(a) \notin {"object", "array"} /\ a = b

\* unique, were it to keep every element
unique_KeepAll(arr) == arr

\* exports.unique: arr.filter((ele, i) => arr.indexOf(ele) === i)
RECURSIVE unique(_)
unique(arr) ==
  IF Len(arr) = 0 THEN <<>>
  ELSE LET front == SubSeq(arr, 1, Len(arr) - 1)
           ele == arr[Len(arr)]
       IN IF \E j \in 1..Len(front) : StrictEquals(front[j], ele)
          THEN unique(front)
          ELSE unique(front) \o <<ele>>

\* JSON.stringify(value), represented by the value its text parses to:
\* properties holding undefined are dropped and undefined array elements
\* become null (key order and indentation are not represented)
RECURSIVE JSONstringify(_)
JSONstringify(value) ==
  IF typeOf(value) = "object"
  THEN Obj([k \in {p \in DOMAIN value.v : value.v[p] # Undefined} |->
              JSONstringify(value.v[k])])
  ELSE IF typeOf(value) = "array"
  THEN Arr([i \in 1..Len(value.v) |->
              IF value.v[i] = Undefined THEN Null ELSE JSONstringify(value.v[i])])
  ELSE value

\* the property names of the array indices 0, 1, 2
IndexNames == <<<<"0">>, <<"1">>, <<"2">>>>

\* the own enumerable properties that { ...x } copies: those of an object,
\* the elements of an array under their indices, the character of a string
\* under 0, and none of a number, a boolean, null or undefined
OwnEnumerable(x) ==
  IF typeOf(x) = "object" THEN x.v
  ELSE IF typeOf(x) = "array"
  THEN [k \in {IndexNames[i] : i \in 1..Len(x.v)} |->
          x.v[CHOOSE i \in 1..Len(x.v) : IndexNames[i] = k]]
  ELSE IF typeOf(x) = "string" /\ x.v # ""
  THEN [k \in {IndexNames[1]} |-> x]
  ELSE EmptyMap

\* { ...a, ...b }, were the properties of a to win over those of b
Spread_FirstWins(a, b) ==
  LET pa == OwnEnumerable(a)
      pb == OwnEnumerable(b)
  IN Obj([k \in (DOMAIN pa) \cup (DOMAIN pb) |->
            IF k \in DOMAIN pa THEN pa[k] ELSE pb[k]])

\* { ...a, ...b }
Spread(a, b) ==
  LET pa == OwnEnumerable(a)
      pb == OwnEnumerable(b)
  IN Obj([k \in (DOMAIN pa) \cup (DOMAIN pb) |->
            IF k \in DOMAIN pb THEN pb[k] ELSE pa[k]])

(***************************************************************************)
(* The backing file and the timers of the event loop                       *)
(***************************************************************************)
\* no file at this.path
Absent == [t |-> "absent"]

\* a file holding the JSON text of doc
File(doc) == [t |-> "file", v |-> doc]

\* a file whose text is not valid JSON
Corrupt == [t |-> "corrupt"]

\* a file holding the JSON text of doc that the process may not read
Unreadable(doc) == [t |-> "unreadable", v |-> doc]

\* a file holding the JSON text of doc that the process may read and not write
ReadOnly(doc) == [t |-> "readonly", v |-> doc]

\* the longest debounce interval a store is constructed with, in ticks
DebounceMs == 2

\* how many timers the event loop may hold at once
MaxTimers == 2

\* setTimeout: a handle that names no armed timer
NewTimer(armed) ==
  CHOOSE h \in 1..(MaxTimers + 1) :
    h \notin DOMAIN armed /\ \A g \in 1..(h - 1) : g \in DOMAIN armed

\* clearTimeout, were it to leave the timer armed
clearTimeout_Kept(armed, h) == armed

\* clearTimeout(h): no effect when h is undefined (0) or names no armed timer
clearTimeout(armed, h) == [g \in (DOMAIN armed) \ {h} |-> armed[g]]

(***************************************************************************)
(* The state                                                               *)
(***************************************************************************)
VARIABLES
  _data,          \* this._data: undefined until the document is materialized
  defaults,       \* this.defaults
  debounce,       \* this.debounce, in ticks
  namespace,      \* this.namespace: a property name, empty when there is none
  timeouts_save,  \* this.timeouts.save: a timer handle, 0 when undefined
  file,           \* the file at this.path
  timers,         \* the armed timers of the event loop: handle -> ticks left
  thrown,         \* the error the last call raised, "none" when it returned
  elapsed,        \* ticks since save() was last called, up to DebounceMs
  burst,          \* the calls since the scheduler was last idle: "none", "open"
                  \* after a save() that armed the timer, "restarted" after one
                  \* that found it pending, "written" once the timer has fired,
                  \* "aside" after a writeFile(), unlink() or load() in between
  lastMutation,   \* store.data as it was when save() was last called
  calling,        \* whether the program still calls the store
  live,           \* the mapping the program last took from store.data: "none"
                  \* when it took none, "live" while this._data refers to
                  \* that object, "stale" once this._data refers to another
  fileEvent,      \* what the store last did to the file: "none", "unlink",
                  \* "write", or "rewrite" for a write made after an unlink
  peer            \* a second Store of the same process over another path,
                  \* as the record of its fields; its timers are in `timers`

vars ==
  <<_data, defaults, debounce, namespace, timeouts_save, file, timers, thrown,
    elapsed, burst, lastMutation, calling, live, fileEvent, peer>>

\* the store and its environment as one value, `this` for the methods below
This ==
  [_data |-> _data, timeouts_save |-> timeouts_save, file |-> file,
   timers |-> timers, thrown |-> thrown, elapsed |-> elapsed, burst |-> burst,
   lastMutation |-> lastMutation, live |-> live,
   fileEvent |-> fileEvent]

\* the fields of a Store that was constructed and not called yet, over a
\* path without a file
NewStore ==
  [_data |-> Undefined, timeouts_save |-> 0, file |-> Absent, timers |-> <<>>,
   thrown |-> "none", elapsed |-> DebounceMs, burst |-> "none",
   lastMutation |-> Undefined, live |-> "none", fileEvent |-> "none"]

\* the state after a method left `this` as w
Becomes(w) ==
  /\ _data' = w._data
  /\ timeouts_save' = w.timeouts_save
  /\ file' = w.file
  /\ timers' = w.timers
  /\ thrown' = w.thrown
  /\ elapsed' = w.elapsed
  /\ burst' = w.burst
  /\ lastMutation' = w.lastMutation
  /\ live' = w.live
  /\ fileEvent' = w.fileEvent
  /\ UNCHANGED <<defaults, debounce, namespace, calling, peer>>

\* this.saved, were it set from the start (as writeFile() of src/index.js
\* sets it before the document is first read)
saved_Always == TRUE

(***************************************************************************)
(* The methods of Store, each as the `this` it leaves                      *)
(***************************************************************************)
\* this.saved: read by the data getter and assigned nowhere in the class
saved == FALSE

\* prop(key)
prop(key) == IF namespace # <<>> THEN namespace \o <<Dot>> \o key ELSE key

\* this._data is made to refer to a new object: what becomes of the mapping
\* the program holds
Displaced(held) == IF held = "none" THEN "none" ELSE "stale"

\* the method throws e: `this` as the method leaves it
Throw(w, e) == [w EXCEPT !.thrown = e]

\* load(), were the permission error caught like the others
loadThrows_Swallowed(w) == FALSE

\* load(): fs.readFileSync fails with EACCES, which load() throws on
loadThrows(w) == w.file.t = "unreadable"

\* get data() throws: this._data is falsy and the load() it calls throws
denied(w) == Falsy(w._data) /\ loadThrows(w)

\* load(), were a file that cannot be parsed to leave it without a value
load_ParseOrNothing(w) ==
  IF w.file = Absent THEN Obj(EmptyMap)
  ELSE IF w.file = Corrupt THEN Undefined
  ELSE w.file.v

\* load(): the value it returns and assigns to this._data; ENOENT and
\* SyntaxError are caught and give {}
load(w) == IF w.file \in {Absent, Corrupt} THEN Obj(EmptyMap) ELSE w.file.v

\* get data(), were a load() that found no document to store the empty one
\* through the setter (the load() of an earlier Store, which assigned this.data)
dataGet_Saving(w) ==
  LET data == IF Falsy(w._data) THEN load(w) ELSE w._data
      seeded == IF ~saved THEN Spread(defaults, data) ELSE data
  IN IF denied(w) THEN Throw(w, "EACCES")
     ELSE IF Falsy(w._data) /\ w.file \in {Absent, Corrupt}
     THEN [w EXCEPT !._data = seeded, !.file = File(JSONstringify(seeded))]
     ELSE [w EXCEPT !._data = seeded]

\* get data(): this._data after the getter; the getter returns that object
dataGet(w) ==
  LET data == IF Falsy(w._data) THEN load(w) ELSE w._data
  IN IF denied(w) THEN Throw(w, "EACCES")
     ELSE [w EXCEPT !._data = IF ~saved THEN Spread(defaults, data) ELSE data,
                    !.live = IF saved /\ ~Falsy(w._data) THEN w.live
                             ELSE Displaced(w.live)]

\* store.data as a reader sees it
View(w) == dataGet(w)._data

\* json()
json(w) == JSONstringify(View(w))

\* writeFile, were it to leave the file alone
writeFile_Skipped(w) == dataGet(w)

\* writeFile, were it to store the document as it was when save() was last
\* called instead of the document as it is
writeFile_AsArmed(w) ==
  IF denied(w) THEN Throw(w, "EACCES")
  ELSE [dataGet(w) EXCEPT !.file = IF w.lastMutation = Undefined THEN File(json(w))
                                   ELSE File(JSONstringify(w.lastMutation)),
                          !.fileEvent = IF w.fileEvent \in {"unlink", "rewrite"}
                                        THEN "rewrite" ELSE "write"]

\* writeFile(): fs.writeFileSync fails with EACCES, which nothing catches
writeThrows(w) == w.file.t = "readonly"

\* writeFile(): this.json() is evaluated before fs.writeFileSync is called
writeFile(w) ==
  IF denied(w) THEN Throw(w, "EACCES")
  ELSE IF writeThrows(w) THEN Throw(dataGet(w), "EACCES")
  ELSE [dataGet(w) EXCEPT !.file = File(json(w)),
                          !.fileEvent = IF w.fileEvent \in {"unlink", "rewrite"}
                                        THEN "rewrite" ELSE "write"]

\* save, were it to arm a timer without cancelling the pending one
save_NoClear(w) ==
  LET noted == [w EXCEPT !.elapsed = 0, !.lastMutation = View(w),
                         !.burst = IF w.timeouts_save \in DOMAIN w.timers
                                   THEN "restarted" ELSE "open"]
  IN IF debounce = 0
     THEN writeFile(w)
     ELSE LET h == NewTimer(noted.timers)
          IN [noted EXCEPT !.timers = noted.timers @@ (h :> debounce),
                           !.timeouts_save = h]

\* save, were it to keep the pending timer and arm none (the policy of the
\* Store of src/index.js, lines 265-269)
save_FirstCallWins(w) ==
  LET noted == [w EXCEPT !.elapsed = 0, !.lastMutation = View(w),
                         !.burst = IF w.timeouts_save \in DOMAIN w.timers
                                   THEN "restarted" ELSE "open"]
  IN IF debounce = 0
     THEN writeFile(w)
     ELSE IF noted.timeouts_save \in DOMAIN noted.timers
     THEN noted
     ELSE LET h == NewTimer(noted.timers)
          IN [noted EXCEPT !.timers = noted.timers @@ (h :> debounce),
                           !.timeouts_save = h]

\* save()
save(w) ==
  LET noted == [w EXCEPT !.elapsed = 0, !.lastMutation = View(w),
                         !.burst = IF w.timeouts_save \in DOMAIN w.timers
                                   THEN "restarted" ELSE "open"]
  IN IF debounce = 0
     THEN writeFile(w)
     ELSE LET rest == IF noted.timeouts_save # 0
                      THEN clearTimeout(noted.timers, noted.timeouts_save)
                      ELSE noted.timers
              h == NewTimer(rest)
          IN [noted EXCEPT !.timers = rest @@ (h :> debounce), !.timeouts_save = h]

\* set data(val)
dataSet(w, val) == save([w EXCEPT !._data = val, !.live = Displaced(w.live)])

\* fs.unlinkSync(this.path): throws ENOENT when there is no file
unlinkSync(w) ==
  IF w.file = Absent THEN [w EXCEPT !.thrown = "ENOENT"] ELSE [w EXCEPT !.file = Absent]

\* exports.tryUnlink: any error but ENOENT is thrown on
tryUnlink(w) ==
  LET r == unlinkSync(w)
  IN IF r.thrown = "ENOENT" THEN [r EXCEPT !.thrown = "none"] ELSE r

\* unlink, were it to leave the pending timer armed
unlink_NoClear(w) == tryUnlink(w)

\* unlink()
unlink(w) ==
  tryUnlink([w EXCEPT !.timers = clearTimeout(w.timers, w.timeouts_save),
                      !.fileEvent = "unlink"])

\* del(key), were it to call save() whether or not a property was removed
Store_del_AlwaysSave(w, key) ==
  save([dataGet(w) EXCEPT !._data = del(View(w), prop(key)).data])

\* del(key), were it to return without save()
Store_del_NoSave(w, key) ==
  [dataGet(w) EXCEPT !._data = del(View(w), prop(key)).data]

\* del(key) with a string key
Store_del(w, key) ==
  LET r == del(View(w), prop(key))
      after == [dataGet(w) EXCEPT !._data = r.data]
  IN IF denied(w) THEN Throw(w, "EACCES")
     ELSE IF ~Falsy(r.ret) THEN save(after) ELSE after

\* set(key, val) with a string key
Store_set(w, key, val) ==
  IF val = Undefined THEN Store_del(w, key)
  ELSE IF denied(w) THEN Throw(w, "EACCES")
  ELSE save([dataGet(w) EXCEPT !._data = set(View(w), prop(key), val)])

\* get(key) with no fallback: the value returned
Store_get(w, key) == get(View(w), prop(key))

\* has(key)
Store_has(w, key) == Store_get(w, key) # Undefined

\* hasOwn(key)
Store_hasOwn(w, key) == utils_hasOwn(View(w), prop(key))

\* union(key, ...rest)
Store_union(w, key, rest) ==
  LET values == Store_get(w, key)
      arr == ArrayConcat(IF isEmptyPrimitive(values) THEN Arr(<<>>) ELSE values)
  IN IF denied(w) THEN Throw(w, "EACCES")
     ELSE Store_set(dataGet(w), key, Arr(unique(flatten(arr \o rest))))

\* clear()
Store_clear(w) ==
  IF namespace # <<>>
  THEN IF denied(w) THEN Throw(w, "EACCES")
       ELSE save([dataGet(w) EXCEPT !._data = Assign(View(w), namespace, Obj(EmptyMap))])
  ELSE save(dataSet(w, Obj(EmptyMap)))

\* utils.cloneDeep(value): a fresh copy of objects and arrays, level by level
RECURSIVE cloneDeep(_)
cloneDeep(value) ==
  IF typeOf(value) = "object"
  THEN Obj([k \in DOMAIN value.v |-> cloneDeep(value.v[k])])
  ELSE IF typeOf(value) = "array"
  THEN Arr([i \in DOMAIN value.v |-> cloneDeep(value.v[i])])
  ELSE value

\* clone(): the value returned
Store_clone(w) ==
  IF namespace # <<>>
  THEN LET data == Prop(View(w), namespace)
       IN IF ~Falsy(data) THEN cloneDeep(data) ELSE Undefined
  ELSE cloneDeep(View(w))

\* k.split(/\\?\./): the pieces between the dots of k, each dot taking the
\* backslash before it, if there is one, with it
RegexSplit(k) ==
  LET pieces == StringSplit(k)
  IN [i \in 1..Len(pieces) |->
        IF i < Len(pieces) /\ pieces[i] # <<>> /\ pieces[i][Len(pieces[i])] = Backslash
        THEN SubSeq(pieces[i], 1, Len(pieces[i]) - 1)
        ELSE pieces[i]]

\* pieces.join('\\.')
RECURSIVE EscapedJoin(_)
EscapedJoin(pieces) ==
  IF Len(pieces) = 0 THEN <<>>
  ELSE IF Len(pieces) = 1 THEN pieces[1]
  ELSE pieces[1] \o <<Backslash, Dot>> \o EscapedJoin(Tail(pieces))

\* the key set(obj) uses for the property name k, were k used as it is
EscapeName_AsIs(k) == k

\* k.split(/\\?\./).join('\\.'): the key set(obj) uses for the property name k
EscapeName(k) == EscapedJoin(RegexSplit(k))

\* the loop of set(obj) over Object.keys(obj), obj given as its entries
\* <<name, value>> in the order of its keys; an exception ends the loop
RECURSIVE SetEach(_, _)
SetEach(w, entries) ==
  IF entries = <<>> \/ w.thrown # "none" THEN w
  ELSE SetEach(Store_set(w, EscapeName(entries[1][1]), entries[1][2]), Tail(entries))

\* set(obj) with a mapping obj
Store_setObject(w, entries) ==
  LET r == SetEach(w, entries)
  IN IF r.thrown # "none" THEN r ELSE save(r)

\* set(key) with a key that is neither a string nor a mapping (a list, a
\* number, null): isObject(key) is false and assert.equal throws
Store_setOther(w) == Throw(w, "AssertionError")

\* get(key), has(key), hasOwn(key) with any key, were the key not checked
Store_getArg_Unchecked(w, key) == dataGet(w)

\* get(key), has(key), hasOwn(key) with any value as key, a string key given
\* as Str of its characters: `this` after the call
Store_getArg(w, key) ==
  IF typeOf(key) # "string" THEN Throw(w, "AssertionError") ELSE dataGet(w)

\* union(key, ...rest) with any value as key
Store_unionArg(w, key, rest) ==
  IF typeOf(key) # "string" THEN Throw(w, "AssertionError")
  ELSE Store_union(w, key.v, rest)

\* del(key) with any value as key: a list is deleted element by element,
\* until one of the calls throws
RECURSIVE Store_delArg(_, _)
Store_delArg(w, key) ==
  IF typeOf(key) = "array"
  THEN IF key.v = <<>> THEN w
       ELSE LET r == Store_delArg(w, key.v[1])
            IN IF r.thrown # "none" THEN r ELSE Store_delArg(r, Arr(Tail(key.v)))
  ELSE IF typeOf(key) # "string" THEN Throw(w, "AssertionError")
  ELSE Store_del(w, key.v)

\* const data = store.data: the program holds the object the getter returns
Store_retrieve(w) ==
  IF denied(w) THEN Throw(w, "EACCES") ELSE [dataGet(w) EXCEPT !.live = "live"]

\* data[k] = x on the mapping the program holds: it changes the document
\* only while this._data refers to that mapping
Store_assignHeld(w, k, x) ==
  IF w.live = "live" THEN [w EXCEPT !._data = Assign(w._data, k, x)] ELSE w

\* this.timeouts, were it one object for every instance (as this.save of
\* src/index.js 265-269, a method of the prototype, is one function for all)
timeoutsObject_Shared(inst) == "store"

\* this.timeouts = {} in the constructor: an object of the instance inst
timeoutsObject(inst) == inst

\* the handles of the first Store, and the handle of the event loop that a
\* handle of the second Store stands for (and back)
OwnHandles == 1..(MaxTimers + 1)

Mirror(h) == IF h = 0 THEN 0 ELSE 2 * (MaxTimers + 2) - h

MirrorTable(armed) == [g \in {Mirror(h) : h \in DOMAIN armed} |-> armed[Mirror(g)]]

\* `this` of the second Store when a call or a callback of it begins: the
\* timers of the event loop, and the handle in its this.timeouts.save
PeerThis ==
  [peer EXCEPT !.thrown = "none",
               !.timers = MirrorTable(timers),
               !.timeouts_save = IF timeoutsObject("peer") = "peer"
                                 THEN peer.timeouts_save
                                 ELSE Mirror(timeouts_save)]

\* the state after a method left `this` of the second Store as w
PeerBecomes(w) ==
  /\ peer' = [w EXCEPT !.timers = <<>>,
                       !.timeouts_save = IF timeoutsObject("peer") = "peer"
                                         THEN w.timeouts_save
                                         ELSE peer.timeouts_save]
  /\ timers' = MirrorTable(w.timers)
  /\ timeouts_save' = IF timeoutsObject("peer") = "peer"
                      THEN timeouts_save
                      ELSE Mirror(w.timeouts_save)
  /\ UNCHANGED <<_data, defaults, debounce, namespace, file, thrown, elapsed, burst,
                 lastMutation, calling, live, fileEvent>>

(***************************************************************************)
(* The calls of the program, the timer callback and the clock              *)
(***************************************************************************)
\* an exception without a handler has ended the process
crashed == thrown = "uncaughtException"

\* the program still calls, and setTimeout has a handle left to give out
CanCall == calling /\ ~crashed /\ Cardinality(DOMAIN timers) < MaxTimers

\* `this` when a call begins
Called == [This EXCEPT !.thrown = "none"]

\* a call outside the bursts of mutating calls
Aside(w) == Becomes([w EXCEPT !.burst = IF w.burst = "none" THEN "none" ELSE "aside"])

\* store.set(key, val)
Set(key, val) == CanCall /\ Becomes(Store_set(Called, key, val))

\* store.del(key)
Del(key) == CanCall /\ Becomes(Store_del(Called, key))

\* store.union(key, ...rest)
Union(key, rest) == CanCall /\ Becomes(Store_union(Called, key, rest))

\* store.clear()
Clear == CanCall /\ Becomes(Store_clear(Called))

\* store.data = val
DataAssign(val) == CanCall /\ Becomes(dataSet(Called, val))

\* store.get(key), store.has(key), store.hasOwn(key), store.clone(),
\* store.json(): each reads this.data and writes nothing else
Get(key) == CanCall /\ Becomes(dataGet(Called))

Has(key) == CanCall /\ Becomes(dataGet(Called))

HasOwn(key) == CanCall /\ Becomes(dataGet(Called))

Clone == CanCall /\ Becomes(dataGet(Called))

Json == CanCall /\ Becomes(dataGet(Called))

\* store.set(obj)
SetObject(entries) == CanCall /\ Becomes(Store_setObject(Called, entries))

\* store.set(list)
SetList(list) == CanCall /\ Becomes(Store_setOther(Called))

\* store.get(key), store.has(key), store.hasOwn(key) with any value as key
GetArg(key) == CanCall /\ Becomes(Store_getArg(Called, key))

\* store.del(key) with any value as key
DelArg(key) == CanCall /\ Becomes(Store_delArg(Called, key))

\* store.union(key, ...rest) with any value as key
UnionArg(key, rest) == CanCall /\ Becomes(Store_unionArg(Called, key, rest))

\* const data = store.data
Retrieve == CanCall /\ Becomes(Store_retrieve(Called))

\* data[k] = x, on the mapping taken from store.data earlier
AssignHeld(k, x) ==
  /\ calling
  /\ live # "none"
  /\ Becomes(Store_assignHeld(This, k, x))

\* store.save()
Save == CanCall /\ Becomes(save(Called))

\* store.writeFile() called by the program
WriteFile == CanCall /\ Aside(writeFile(Called))

\* store.unlink()
Unlink == CanCall /\ Aside(unlink(Called))

\* load() as a call of the program: `this` after it
Store_load(w) ==
  IF loadThrows(w) THEN Throw(w, "EACCES")
  ELSE [w EXCEPT !._data = load(w), !.live = Displaced(w.live)]

\* store.load()
Load == CanCall /\ Aside(Store_load(Called))

\* the callback of timer h, were it to spend the timer and write nothing
onTimeout_Spent(w, h) == [w EXCEPT !.timers = clearTimeout(w.timers, h)]

\* the callback of timer h, write of save(): h is spent and writeFile() runs;
\* what writeFile() throws has no handler and ends the process
onTimeout(w, h) ==
  LET r == writeFile([w EXCEPT !.timers = clearTimeout(w.timers, h),
                               !.burst = IF w.burst \in {"open", "restarted"}
                                         THEN "written" ELSE w.burst,
                               !.thrown = "none"])
  IN [r EXCEPT !.thrown = IF r.thrown # "none" THEN "uncaughtException" ELSE w.thrown]

\* the event loop runs the callback of the due timer h
TimerFire(h) ==
  /\ ~crashed
  /\ h \in DOMAIN timers
  /\ timers[h] = 0
  /\ Becomes(onTimeout(This, h))

\* one tick of the clock while some timer is not yet due
Tick ==
  /\ \E h \in DOMAIN timers : timers[h] > 0
  /\ timers' = [h \in DOMAIN timers |-> IF timers[h] > 0 THEN timers[h] - 1 ELSE 0]
  /\ elapsed' = IF elapsed < DebounceMs THEN elapsed + 1 ELSE elapsed
  /\ UNCHANGED <<_data, defaults, debounce, namespace, timeouts_save, file, thrown,
                 burst, lastMutation, calling, live, fileEvent, peer>>

\* the program makes its last call
Stop ==
  /\ calling
  /\ calling' = FALSE
  /\ UNCHANGED <<_data, defaults, debounce, namespace, timeouts_save, file, timers,
                 thrown, elapsed, burst, lastMutation, live, fileEvent, peer>>

(***************************************************************************)
(* The specification                                                       *)
(***************************************************************************)
a == <<"a">>

a_b == <<"a", ".", "b">>

aEb == <<"a", "\\", ".", "b">>

a_b_c == <<"a", ".", "b", ".", "c">>

aEb_a_b == <<"a", "\\", ".", "b", ".", "a", ".", "b">>

\* the keys of the accessor runs: the empty key, a plain key, paths of two
\* and three segments and keys with an escaped dot
Keys == {<<>>, a, a_b, aEb, a_b_c, aEb_a_b}

\* the values of the accessor runs
Values == {Str("x"), Null, Undefined}

\* the keys and values of the scheduler runs, and the arguments after the key
\* that the program passes to union
FewKeys == {a, a_b}

FewValues == {Str("x"), Undefined}

FewRests == {<<Str("x")>>}

\* the defaults a store is constructed with (scalars only)
Defaults == {Obj(EmptyMap), Obj1(a, Str("d"))}

\* the namespaces a store is constructed with
Namespaces == {<<>>, <<"n">>}

\* the backing file when the store is constructed
Files == {Absent, File(Obj1(a_b, Str("f")))}

\* new Store(name, {debounce, namespace, path}, defaults)
Init ==
  /\ _data = Undefined
  /\ defaults \in Defaults
  /\ debounce \in {0, DebounceMs}
  /\ namespace \in Namespaces
  /\ timeouts_save = 0
  /\ file \in Files
  /\ timers = <<>>
  /\ thrown = "none"
  /\ elapsed = DebounceMs
  /\ burst = "none"
  /\ lastMutation = Undefined
  /\ calling = TRUE
  /\ live = "none"
  /\ fileEvent = "none"
  /\ peer = NewStore

Next ==
  \/ \E key \in FewKeys, val \in FewValues : Set(key, val)
  \/ \E key \in FewKeys : Del(key)
  \/ \E key \in FewKeys, rest \in FewRests : Union(key, rest)
  \/ Clear
  \/ DataAssign(Obj(EmptyMap))
  \/ \E key \in FewKeys : Get(key)
  \/ \E key \in FewKeys : Has(key)
  \/ \E key \in FewKeys : HasOwn(key)
  \/ Clone
  \/ Json
  \/ Save
  \/ WriteFile
  \/ Unlink
  \/ Load
  \/ \E h \in DOMAIN timers : TimerFire(h)
  \/ Tick
  \/ Stop

\* every store, with few keys
Spec == Init /\ [][Next]_vars

\* the stores without namespace and without defaults
FairInit == Init /\ namespace = <<>> /\ defaults = Obj(EmptyMap)

\* the calls that begin, restart and cut short a burst, the callbacks and
\* the clock
FairNext ==
  \/ \E key \in FewKeys, val \in FewValues : Set(key, val)
  \/ Clear
  \/ Unlink
  \/ \E h \in DOMAIN timers : TimerFire(h)
  \/ Tick
  \/ Stop

\* those stores under an event loop that runs a due callback and a clock
\* that goes on
FairSpec ==
  /\ FairInit
  /\ [][FairNext]_vars
  /\ WF_vars(\E h \in DOMAIN timers : TimerFire(h))
  /\ WF_vars(Tick)

\* the stores that write synchronously
AccessorInit == Init /\ debounce = 0

AccessorNext ==
  \/ \E key \in Keys, val \in Values : Set(key, val)
  \/ \E key \in Keys : Del(key)
  \/ \E key \in FewKeys, rest \in FewRests : Union(key, rest)
  \/ Clear
  \/ DataAssign(Obj(EmptyMap))
  \/ \E key \in FewKeys : Get(key)
  \/ \E key \in FewKeys : Has(key)
  \/ \E key \in FewKeys : HasOwn(key)

\* the synchronous stores under the calls that read and write the document,
\* with every key
AccessorSpec == AccessorInit /\ [][AccessorNext]_vars

a_b_a == <<"a", ".", "b", ".", "a">>

\* the keys of the accessor runs and a path below the one that a\.b escapes
PathKeys == Keys \cup {a_b_a}

\* the debounced stores without namespace and without defaults
PathInit == Init /\ debounce = DebounceMs /\ namespace = <<>> /\ defaults = Obj(EmptyMap)

PathNext ==
  \/ \E key \in {a_b, aEb_a_b}, val \in FewValues : Set(key, val)
  \/ \E key \in PathKeys : Del(key)
  \/ \E h \in DOMAIN timers : TimerFire(h)
  \/ Tick

\* the debounced stores under set of a path and of a path below an escaped
\* key, del with every key, the timer and the clock
PathSpec == PathInit /\ [][PathNext]_vars

\* the arguments after the key in the union runs: a scalar, an array of
\* scalars, two scalars, and an array that holds an array
UnionRests ==
  {<<Str("b")>>, <<Str("c")>>, <<Str("d")>>, <<Arr(<<Str("c"), Str("d")>>)>>,
   <<Str("d"), Str("b")>>, <<Arr(<<Arr(<<Str("b")>>)>>)>>}

\* the values that set stores before a union: the empty primitives, the
\* other falsy scalars and a string
UnionSeeds == {Null, Str(""), Num(0), Bool(FALSE), Str("x")}

\* the synchronous stores over an absent file, without namespace and defaults
UnionInit == AccessorInit /\ namespace = <<>> /\ defaults = Obj(EmptyMap) /\ file = Absent

UnionNext ==
  \/ \E rest \in UnionRests : Union(a, rest)
  \/ \E val \in UnionSeeds : Set(a, val)
  \/ Del(a)

\* those stores under union, set and del of one key
UnionSpec == UnionInit /\ [][UnionNext]_vars

b == <<"b">>

\* the defaults, the files and the keys of the runs that start a store:
\* one and two default keys; no file, a file that is not JSON, a file that
\* holds one of the default keys
SeedDefaults == {Obj1(a, Str("d")), Obj2(a, Str("d"), b, Str("e"))}

SeedFiles == {Absent, Corrupt, File(Obj1(a, Str("f")))}

SeedKeys == {a, b}

\* new Store(name, {path, debounce}, defaults)
SeedInit ==
  /\ _data = Undefined
  /\ defaults \in SeedDefaults
  /\ debounce \in {0, DebounceMs}
  /\ namespace = <<>>
  /\ timeouts_save = 0
  /\ file \in SeedFiles
  /\ timers = <<>>
  /\ thrown = "none"
  /\ elapsed = DebounceMs
  /\ burst = "none"
  /\ lastMutation = Undefined
  /\ calling = TRUE
  /\ live = "none"
  /\ fileEvent = "none"
  /\ peer = NewStore

SeedNext ==
  \/ \E key \in SeedKeys, val \in Values : Set(key, val)
  \/ \E key \in SeedKeys : Del(key)
  \/ Clear
  \/ DataAssign(Obj(EmptyMap))
  \/ \E key \in SeedKeys : Get(key)
  \/ \E key \in SeedKeys : Has(key)
  \/ \E key \in SeedKeys : HasOwn(key)
  \/ Clone
  \/ Json
  \/ Load
  \/ WriteFile
  \/ Unlink
  \/ \E h \in DOMAIN timers : TimerFire(h)
  \/ Tick

\* the stores with defaults, from their construction on
SeedSpec == SeedInit /\ [][SeedNext]_vars

\* chmod by the environment: the file becomes readable
Chmod ==
  /\ file.t = "unreadable"
  /\ file' = File(file.v)
  /\ UNCHANGED <<_data, defaults, debounce, namespace, timeouts_save, timers, thrown,
                 elapsed, burst, lastMutation, calling, live, fileEvent, peer>>

\* the files a store without read permission is constructed over
PermFiles == {Unreadable(Obj(EmptyMap)), Unreadable(Obj1(a, Str("f")))}

\* new Store(name, {debounce, path}, defaults) over a file it may not read
PermInit ==
  /\ _data = Undefined
  /\ defaults \in Defaults
  /\ debounce \in {0, DebounceMs}
  /\ namespace = <<>>
  /\ timeouts_save = 0
  /\ file \in PermFiles
  /\ timers = <<>>
  /\ thrown = "none"
  /\ elapsed = DebounceMs
  /\ burst = "none"
  /\ lastMutation = Undefined
  /\ calling = TRUE
  /\ live = "none"
  /\ fileEvent = "none"
  /\ peer = NewStore

PermNext ==
  \/ \E key \in FewKeys, val \in FewValues : Set(key, val)
  \/ \E key \in FewKeys : Del(key)
  \/ \E key \in FewKeys, rest \in FewRests : Union(key, rest)
  \/ \E key \in FewKeys : Get(key)
  \/ \E key \in FewKeys : Has(key)
  \/ Clone
  \/ Json
  \/ Chmod
  \/ \E h \in DOMAIN timers : TimerFire(h)
  \/ Tick

\* the stores over an unreadable file, until and after it becomes readable
PermSpec == PermInit /\ [][PermNext]_vars

\* the namespace of the namespaced stores, and names of sibling properties
n == <<"n">>

other == <<"o">>

n_a == <<"n", ".", "a">>

\* the files a namespaced store is constructed over: with a sibling of the
\* namespace, and with a property literally named 'n.a' beside it
NsFiles ==
  {Absent, File(Obj2(n, Obj1(a, Str("f")), other, Str("g"))),
   File(Obj2(n_a, Str("f"), other, Str("g")))}

\* new Store(name, {debounce, namespace: 'n', path})
NsInit ==
  /\ _data = Undefined
  /\ defaults = Obj(EmptyMap)
  /\ debounce \in {0, DebounceMs}
  /\ namespace = n
  /\ timeouts_save = 0
  /\ file \in NsFiles
  /\ timers = <<>>
  /\ thrown = "none"
  /\ elapsed = DebounceMs
  /\ burst = "none"
  /\ lastMutation = Undefined
  /\ calling = TRUE
  /\ live = "none"
  /\ fileEvent = "none"
  /\ peer = NewStore

NsNext ==
  \/ \E key \in FewKeys, val \in FewValues : Set(key, val)
  \/ \E key \in FewKeys : Del(key)
  \/ \E key \in FewKeys, rest \in FewRests : Union(key, rest)
  \/ Clear
  \/ \E key \in FewKeys : Get(key)
  \/ \E key \in FewKeys : Has(key)
  \/ \E key \in FewKeys : HasOwn(key)
  \/ Clone
  \/ \E h \in DOMAIN timers : TimerFire(h)
  \/ Tick

\* the namespaced stores
NsSpec == NsInit /\ [][NsNext]_vars

c == <<"c">>

aEb_c == <<"a", "\\", ".", "b", ".", "c">>

\* the mappings passed to set(obj), each as its entries in key order
Mappings ==
  {<<>>,
   << <<a, Str("x")>> >>,
   << <<c, Str("d")>> >>,
   << <<a_b, Obj1(c, Str("d"))>> >>,
   << <<aEb, Obj1(c, Str("d"))>> >>,
   << <<a_b, Str("x")>> >>,
   << <<a, Str("x")>>, <<a_b, Null>> >>,
   << <<a_b, Str("x")>>, <<a, Undefined>> >>}

\* the lists of mappings passed to set(list)
MappingLists ==
  {<< << <<a, Str("b")>> >>, << <<c, Str("d")>> >> >>,
   << << <<a, Str("b")>> >>, << <<a, Str("x")>> >> >>}

\* the values passed as key
KeyArgs ==
  {Str(a), Str(a_b), Num(5), Null, Undefined, Obj(EmptyMap),
   Arr(<<Str(a), Str(c)>>), Arr(<<Str(a), Num(5)>>)}

\* new Store(name, {debounce, path})
BulkInit ==
  /\ _data = Undefined
  /\ defaults = Obj(EmptyMap)
  /\ debounce \in {0, DebounceMs}
  /\ namespace = <<>>
  /\ timeouts_save = 0
  /\ file \in {Absent, File(Obj1(a, Obj1(c, Str("f"))))}
  /\ timers = <<>>
  /\ thrown = "none"
  /\ elapsed = DebounceMs
  /\ burst = "none"
  /\ lastMutation = Undefined
  /\ calling = TRUE
  /\ live = "none"
  /\ fileEvent = "none"
  /\ peer = NewStore

BulkNext ==
  \/ \E entries \in Mappings : SetObject(entries)
  \/ \E list \in MappingLists : SetList(list)
  \/ \E key \in KeyArgs : GetArg(key)
  \/ \E key \in KeyArgs : DelArg(key)
  \/ \E rest \in FewRests : UnionArg(Num(5), rest)
  \/ \E key \in {a, a_b, aEb} : Del(key)
  \/ \E key \in {a, a_b, aEb} : Get(key)
  \/ \E h \in DOMAIN timers : TimerFire(h)
  \/ Tick

\* the stores set through mappings and lists of mappings
BulkSpec == BulkInit /\ [][BulkNext]_vars

\* new Store(name, {debounce, path}, defaults) in a program that keeps the
\* mapping it reads from store.data
LiveInit ==
  /\ _data = Undefined
  /\ defaults \in Defaults
  /\ debounce \in {0, DebounceMs}
  /\ namespace = <<>>
  /\ timeouts_save = 0
  /\ file \in {Absent, File(Obj1(a, Str("f")))}
  /\ timers = <<>>
  /\ thrown = "none"
  /\ elapsed = DebounceMs
  /\ burst = "none"
  /\ lastMutation = Undefined
  /\ calling = TRUE
  /\ live = "none"
  /\ fileEvent = "none"
  /\ peer = NewStore

LiveNext ==
  \/ Retrieve
  \/ \E x \in {Str("y")} : AssignHeld(b, x)
  \/ \E key \in FewKeys : Get(key)
  \/ \E key \in FewKeys, val \in FewValues : Set(key, val)
  \/ \E h \in DOMAIN timers : TimerFire(h)
  \/ Tick

\* the stores whose document the program also changes directly
LiveSpec == LiveInit /\ [][LiveNext]_vars

(***************************************************************************)
(* The stores over files that hold any JSON value or cannot be written     *)
(***************************************************************************)
a_c == <<"a", ".", "c">>

\* the backing file when such a store is constructed: no file, an array, a
\* number, a string, false, null, and a mapping in a file that is read-only
EdgeFiles ==
  {Absent, File(Arr(<<Str("x"), Null>>)), File(Num(5)), File(Str("x")),
   File(Bool(FALSE)), File(Null), ReadOnly(Obj1(a, Null))}

\* the values such a store is given: a string, and mappings whose property
\* holds undefined or null
EdgeValues == {Str("x"), Obj1(c, Undefined), Obj1(c, Null)}

EdgeInit ==
  /\ _data = Undefined
  /\ defaults \in {Obj(EmptyMap), Obj1(b, Str("d"))}
  /\ debounce \in {0, DebounceMs}
  /\ namespace = <<>>
  /\ timeouts_save = 0
  /\ file \in EdgeFiles
  /\ timers = <<>>
  /\ thrown = "none"
  /\ elapsed = DebounceMs
  /\ burst = "none"
  /\ lastMutation = Undefined
  /\ calling = TRUE
  /\ live = "none"
  /\ fileEvent = "none"
  /\ peer = NewStore

EdgeNext ==
  \/ \E val \in EdgeValues : Set(a, val)
  \/ \E key \in {a, a_c} : Get(key)
  \/ Save
  \/ WriteFile
  \/ Load
  \/ \E h \in DOMAIN timers : TimerFire(h)
  \/ Tick

EdgeSpec == EdgeInit /\ [][EdgeNext]_vars

(***************************************************************************)
(* Two stores of one process over different paths                          *)
(***************************************************************************)
\* set(key, val) on the second Store
PeerSet(key, val) == CanCall /\ PeerBecomes(Store_set(PeerThis, key, val))

\* the event loop runs the callback of the due timer h of the first Store
OwnTimerFire(h) == h \in OwnHandles /\ TimerFire(h)

\* the event loop runs the callback of the due timer h of the second Store
PeerTimerFire(h) ==
  /\ ~crashed
  /\ h \in (DOMAIN timers) \ OwnHandles
  /\ timers[h] = 0
  /\ PeerBecomes(onTimeout(PeerThis, Mirror(h)))

PeerInit ==
  /\ _data = Undefined
  /\ defaults = Obj(EmptyMap)
  /\ debounce = DebounceMs
  /\ namespace = <<>>
  /\ timeouts_save = 0
  /\ file = Absent
  /\ timers = <<>>
  /\ thrown = "none"
  /\ elapsed = DebounceMs
  /\ burst = "none"
  /\ lastMutation = Undefined
  /\ calling = TRUE
  /\ live = "none"
  /\ fileEvent = "none"
  /\ peer = [NewStore EXCEPT !.file = File(Obj1(b, Str("f")))]

PeerNext ==
  \/ \E val \in {Str("x")} : Set(a, val)
  \/ \E val \in {Null} : PeerSet(a, val)
  \/ \E h \in DOMAIN timers : OwnTimerFire(h)
  \/ \E h \in DOMAIN timers : PeerTimerFire(h)
  \/ Tick
  \/ Stop

\* those two stores under an event loop that runs every due callback and a
\* clock that goes on
PeerSpec ==
  /\ PeerInit
  /\ [][PeerNext]_vars
  /\ WF_vars(\E h \in DOMAIN timers : OwnTimerFire(h))
  /\ WF_vars(\E h \in DOMAIN timers : PeerTimerFire(h))
  /\ WF_vars(Tick)

(***************************************************************************)
(* Vocabulary of the properties                                            *)
(***************************************************************************)
\* store.data as a reader sees it in the current state
Document == View(This)

\* a segment with each of its dots escaped
RECURSIVE EscapeDots(_)
EscapeDots(seg) ==
  IF Len(seg) = 0 THEN <<>>
  ELSE (IF seg[1] = Dot THEN <<Backslash, Dot>> ELSE <<seg[1]>>) \o EscapeDots(Tail(seg))

\* the key that names the first i segments of key
PrefixKey(key, i) ==
  StringJoin([j \in 1..i |-> EscapeDots(split(key)[j])])

\* o[s1][s2]...[sn], undefined when a step finds no mapping
RECURSIVE Follow(_, _)
Follow(o, segs) ==
  IF Len(segs) = 0 THEN o ELSE Follow(Prop(o, segs[1]), Tail(segs))

\* the root document data holds a property, other than null, whose literal
\* name is the text of the multi-segment key
Shadowed(data, key) == split(key) # <<key>> /\ ~isNullish(Prop(data, key))

\* neither key nor a prefix of it is shadowed in the root document data
Unshadowed(data, key) ==
  \A i \in 1..Len(split(key)) : ~Shadowed(data, prop(PrefixKey(key, i)))

\* in w, get(key) is val and get of every proper prefix of key is a mapping
\* through which the remaining segments lead to val
LeadsTo(w, key, val) ==
  /\ Store_get(w, key) = val
  /\ \A i \in 1..(Len(split(key)) - 1) :
       LET m == Store_get(w, PrefixKey(key, i))
       IN /\ isObject(m)
          /\ Follow(m, SubSeq(split(key), i + 1, Len(split(key)))) = val

\* del(key) would remove a property in the current state
Removes(key) == ~Falsy(del(Document, prop(key)).ret)

\* `this` as each mutating call of the scheduler runs would leave it: set of
\* a value, union, clear, assignment to data and a del that removes a key
Mutations ==
  {Store_set(Called, key, val) : key \in FewKeys, val \in FewValues \ {Undefined}}
    \cup {Store_union(Called, key, rest) : key \in FewKeys, rest \in FewRests}
    \cup {Store_del(Called, key) : key \in {k \in FewKeys : Removes(k)}}
    \cup {Store_clear(Called), dataSet(Called, Obj(EmptyMap))}

\* the file holds the serialization of the document of w
Persisted(w) == w.file = File(JSONstringify(View(w)))

\* a burst of mutating calls is under way, its write still to come
Bursting == burst \in {"open", "restarted"}

C3_BurstWrittenOnce ==
  debounce > 0 =>
    /\ CanCall =>
         \A after \in Mutations :
           /\ after.file = file
           /\ Cardinality(DOMAIN after.timers) = 1
           /\ after.lastMutation = View(after)
    /\ Bursting =>
         /\ Cardinality(DOMAIN timers) = 1
         /\ \A h \in DOMAIN timers :
              timers[h] = 0 =>
                LET fired == onTimeout(This, h)
                IN /\ fired.file = File(JSONstringify(lastMutation))
                   /\ fired.timers = <<>>
    /\ burst = "written" => timers = <<>>

\* the timer of a burst of several calls has fired: the file holds the
\* document of the last mutation, in which a.b is 'x'
C3_Witness ==
  /\ debounce > 0
  /\ burst = "written"
  /\ timers = <<>>
  /\ file = File(JSONstringify(lastMutation))
  /\ get(lastMutation, prop(a_b)) = Str("x")

C5_OneTimer ==
  /\ Cardinality(DOMAIN timers) <= 1
  /\ CanCall =>
       \A after \in {save(Called), writeFile(Called), unlink(Called)} :
         Cardinality(DOMAIN after.timers) <= 1

\* save() found a timer pending: one timer is armed, the new one
C5_Witness ==
  /\ burst = "restarted"
  /\ DOMAIN timers = {timeouts_save}
  /\ timers[timeouts_save] = debounce

(***************************************************************************)
(* C6: with debounce zero, every mutating call (set, union, clear, a del   *)
(* that removed a key, assignment to data) leaves the file holding the     *)
(* serialization of the document and arms no timer.                        *)
(***************************************************************************)
C6_SynchronousWrite ==
  debounce = 0 =>
    /\ timers = <<>>
    /\ CanCall => \A after \in Mutations : Persisted(after) /\ after.timers = <<>>

\* a synchronous store without defaults after set('a', 'x') on an empty
\* document: the file holds {a: 'x'}
C6_Witness ==
  /\ debounce = 0
  /\ namespace = <<>>
  /\ _data = Obj1(a, Str("x"))
  /\ file = File(Obj1(a, Str("x")))
  /\ timers = <<>>

(***************************************************************************)
(* C7: every mutating call ends in save(): it has written the document or  *)
(* left the timer armed; and once the program has made its last call with  *)
(* the timer pending, eventually no timer is armed and the file holds the  *)
(* serialization of the document.                                          *)
(***************************************************************************)
C7_EventuallyWritten ==
  /\ [](CanCall =>
          \A after \in Mutations :
            IF debounce = 0 THEN Persisted(after)
            ELSE after.timeouts_save \in DOMAIN after.timers)
  /\ ((~calling /\ timeouts_save \in DOMAIN timers)
        ~> (timers = <<>> /\ Persisted(This)))

\* the program stopped calling after a burst and the timer has fired since
C7_Witness ==
  /\ ~calling
  /\ debounce > 0
  /\ burst = "written"
  /\ timers = <<>>
  /\ file # Absent
  /\ Persisted(This)

(***************************************************************************)
(* C8: unlink() cancels the pending timer and removes the file: when it    *)
(* returns the file is absent and no timer is armed that could write it    *)
(* again, and it raises no error, whether or not the file existed.         *)
(***************************************************************************)
C8_UnlinkCancelsAndRemoves ==
  CanCall =>
    LET after == unlink(Called)
    IN /\ after.file = Absent
       /\ after.timers = <<>>
       /\ after.thrown = "none"

\* unlink() was called within the interval of a burst: the file is absent
\* and the timer of the burst is armed no more
C8_Witness ==
  /\ debounce > 0
  /\ burst = "aside"
  /\ elapsed < debounce
  /\ timeouts_save # 0
  /\ timers = <<>>
  /\ file = Absent
  /\ thrown = "none"

\* the document o without the property that the names segs lead to
RECURSIVE Without(_, _)
Without(o, segs) ==
  IF Len(segs) = 1 THEN Delete(o, segs[1])
  ELSE Assign(o, segs[1], Without(Prop(o, segs[1]), Tail(segs)))

\* the names of split(prop(key)) lead to a property of the document
Exists(key) ==
  LET segs == split(prop(key))
      parent == Follow(Document, SubSeq(segs, 1, Len(segs) - 1))
  IN isObject(parent) /\ hasOwnProperty(parent, segs[Len(segs)])

(***************************************************************************)
(* C9: del(p), for p a nested path that exists in a document where no      *)
(* literal property shadows it, removes the property named by the last     *)
(* segment and nothing else: the ancestors stay, as mappings, and every    *)
(* other key keeps its value.                                              *)
(***************************************************************************)
C9_DelRemovesLastSegmentOnly ==
  \A key \in Keys :
    (CanCall /\ Len(split(key)) > 1 /\ Unshadowed(Document, key) /\ Exists(key))
      => View(Store_del(Called, key)) = Without(Document, split(prop(key)))

(***************************************************************************)
(* C10: del is idempotent in every reachable state and for every key: a    *)
(* second del(key) right after the first finds nothing to delete, returns  *)
(* a falsy result, leaves document, file and timers as they are and        *)
(* raises no error.                                                        *)
(***************************************************************************)
C10_DelIdempotent ==
  \A key \in Keys :
    CanCall =>
      LET once == [Store_del(Called, key) EXCEPT !.thrown = "none"]
          twice == Store_del(once, key)
      IN /\ Falsy(del(View(once), prop(key)).ret)
         /\ View(twice) = View(once)
         /\ twice.file = once.file
         /\ twice.timers = once.timers
         /\ twice.thrown = "none"

\* neither a property literally named by the key nor the chain of properties
\* that its segments name exists in the document
NothingAt(key) == ~hasOwnProperty(Document, prop(key)) /\ ~Exists(key)

\* w differs from the current state in nothing that a call can observe:
\* document, file, timers, handle of the write timer, error
SameAsNow(w) ==
  /\ View(w) = Document
  /\ w.file = file
  /\ w.timers = timers
  /\ w.timeouts_save = timeouts_save
  /\ w.thrown = "none"

C12_HasIffDefined ==
  \A key \in Keys :
    CanCall =>
      /\ Store_has(Called, key) <=> Store_get(Called, key) # Undefined
      /\ \A val \in Values \ {Undefined} :
           Unshadowed(Document, key) => Store_has(Store_set(Called, key, val), key)
      /\ (NothingAt(key) /\ Unshadowed(Document, key)) => ~Store_has(Called, key)

(***************************************************************************)
(* C13: hasOwn(k) is true exactly when the document holds the property     *)
(* that k names, whatever its value: after set(k, null) hasOwn(k) and      *)
(* has(k) are true; after set(k, {b: undefined}) hasOwn(k.b) is true and   *)
(* has(k.b) is false; and hasOwn(k) is false when the last segment is      *)
(* missing.  Stated for the documents where no literal property shadows k. *)
(***************************************************************************)
C13_HasOwnIffOwned ==
  \A key \in Keys :
    (CanCall /\ Unshadowed(Document, key)) =>
      /\ Store_hasOwn(Called, key) <=> ~NothingAt(key)
      /\ LET after == Store_set(Called, key, Null)
         IN Store_hasOwn(after, key) /\ Store_has(after, key)
      /\ LET after == Store_set(Called, key, Obj1(<<"b">>, Undefined))
             below == key \o <<Dot, "b">>
         IN Unshadowed(Document, below)
              => (Store_hasOwn(after, below) /\ ~Store_has(after, below))

\* some property of the document x, at any depth, holds undefined
RECURSIVE HoldsUndefined(_)
HoldsUndefined(x) ==
  /\ isObject(x)
  /\ \E k \in DOMAIN x.v : x.v[k] = Undefined \/ HoldsUndefined(x.v[k])

(***************************************************************************)
(* C14: for every key k and every document in which no literal property    *)
(* shadows k, set(k, undefined) leaves the store as del(k) leaves it:      *)
(* afterwards has(k) and hasOwn(k) are false, no property of the document  *)
(* holds undefined, and save() was called only if k existed.               *)
(***************************************************************************)
C14_SetUndefinedIsDel ==
  \A key \in Keys :
    (CanCall /\ Unshadowed(Document, key)) =>
      LET after == Store_set(Called, key, Undefined)
      IN /\ after = Store_del(Called, key)
         /\ ~Store_has(after, key)
         /\ ~Store_hasOwn(after, key)
         /\ ~HoldsUndefined(View(after))
         /\ Removes(key) => ~NothingAt(key)

(***************************************************************************)
(* C15: after set of the escaped key a\.b to 'x', on a document with no    *)
(* property a, the value is stored under the one property literally named  *)
(* 'a.b'; get of the escaped key returns 'x' and get of the path a.b       *)
(* returns undefined.                                                      *)
(***************************************************************************)
C15_EscapedKeyIsNotThePath ==
  (CanCall /\ NothingAt(a)) =>
    LET after == Store_set(Called, aEb, Str("x"))
    IN /\ split(aEb) = <<a_b>>
       /\ Follow(View(after), split(prop(aEb))) = Str("x")
       /\ Store_get(after, aEb) = Str("x")
       /\ Store_get(after, a_b) = Undefined

\* the key of two segments, each with an escaped dot
aEb_aEb == <<"a", "\\", ".", "b", ".", "a", "\\", ".", "b">>

\* keys with escaped dots, of one, two and three segments
EscapedKeys == {aEb, aEb_aEb, aEb_a_b}

(***************************************************************************)
(* C16: for every key k with escaped dots, of one, two or three segments,  *)
(* after set(k, v) with v defined hasOwn(k) is true, while hasOwn of the   *)
(* fragment before the escaped dot, a, stays false.                        *)
(***************************************************************************)
C16_HasOwnWithEscapedKeys ==
  \A key \in EscapedKeys, val \in Values \ {Undefined} :
    (CanCall /\ Unshadowed(Document, key)) =>
      LET after == Store_set(Called, key, val)
      IN /\ Store_hasOwn(after, key)
         /\ NothingAt(a) => ~Store_hasOwn(after, a)

\* the existing value x as a sequence: none for undefined, null and '', its
\* elements for an array, the value itself otherwise
ExistingSeq(x) ==
  IF x \in {Undefined, Null, Str("")} THEN <<>>
  ELSE IF x.t = "array" THEN x.v
  ELSE <<x>>

\* items with each array among them replaced by its elements
RECURSIVE FlattenOnce(_)
FlattenOnce(items) ==
  IF items = <<>> THEN <<>>
  ELSE (IF Head(items).t = "array" THEN Head(items).v ELSE <<Head(items)>>)
         \o FlattenOnce(Tail(items))

\* items without the scalars that occur earlier in seen or in items (arrays
\* and mappings are equal to themselves only)
RECURSIVE FirstOccurrences(_, _)
FirstOccurrences(seen, items) ==
  IF items = <<>> THEN seen
  ELSE LET x == Head(items)
           dup == x.t \notin {"array", "object"} /\ \E i \in 1..Len(seen) : seen[i] = x
       IN FirstOccurrences(IF dup THEN seen ELSE Append(seen, x), Tail(items))

\* s is an initial part of t
IsPrefix(s, t) == Len(s) <= Len(t) /\ SubSeq(t, 1, Len(s)) = s

\* the value of key a after the four calls union('a', 'b'), union('a', 'c'),
\* union('a', 'd'), union('a', 'c') made on w
AfterBCDC(w) ==
  LET w1 == Store_union(w, a, <<Str("b")>>)
      w2 == Store_union(w1, a, <<Str("c")>>)
      w3 == Store_union(w2, a, <<Str("d")>>)
      w4 == Store_union(w3, a, <<Str("c")>>)
  IN Store_get(w4, a)

(***************************************************************************)
(* C17 as claimed: union(k, ...values) stores the existing value taken as  *)
(* a sequence, followed by the supplied values flattened by one level,     *)
(* without the elements strictly equal to an earlier one; the existing     *)
(* elements stay where they are; and on an absent key the unions of 'b',   *)
(* 'c', 'd', 'c' give ['b', 'c', 'd'].                                     *)
(***************************************************************************)
C17_Union_Claimed ==
  CanCall =>
    /\ \A rest \in UnionRests :
         LET existing == ExistingSeq(Store_get(Called, a))
             stored == Store_get(Store_union(Called, a, rest), a)
         IN /\ stored = Arr(FirstOccurrences(<<>>, existing \o FlattenOnce(rest)))
            /\ IsPrefix(existing, stored.v)
    /\ NothingAt(a) => AfterBCDC(Called) = Arr(<<Str("b"), Str("c"), Str("d")>>)

(***************************************************************************)
(* C17 amended: union(k, ...values) stores the existing value taken as a   *)
(* sequence followed by the supplied values, the whole flattened by one    *)
(* level, without the elements strictly equal to an earlier one; existing  *)
(* elements that are not arrays stay where they are when none of them is   *)
(* an array; and on an absent key the unions of 'b', 'c', 'd', 'c' give    *)
(* ['b', 'c', 'd'].                                                        *)
(***************************************************************************)
C17_Union ==
  CanCall =>
    /\ \A rest \in UnionRests :
         LET existing == ExistingSeq(Store_get(Called, a))
             stored == Store_get(Store_union(Called, a, rest), a)
         IN /\ stored = Arr(FirstOccurrences(<<>>, FlattenOnce(existing \o rest)))
            /\ (\A i \in 1..Len(existing) : existing[i].t # "array")
                 => IsPrefix(existing, stored.v)
    /\ NothingAt(a) => AfterBCDC(Called) = Arr(<<Str("b"), Str("c"), Str("d")>>)

\* the unions of 'b', 'c', 'd' and again 'c' on a key that was absent
C17_Witness == _data = Obj1(a, Arr(<<Str("b"), Str("c"), Str("d")>>))


(***************************************************************************)
(* C18: defaults never override data.  For a top-level key that the        *)
(* document held before the defaults were merged (from the loaded file or  *)
(* from an earlier call) get returns that value; after set(key, val) with  *)
(* a value other than undefined get returns val; and the default is what   *)
(* get returns for a key of the defaults that the document did not hold.   *)
(***************************************************************************)
\* the document before the defaults are merged under it
Unseeded == IF Falsy(_data) THEN load(This) ELSE _data

C18_DataOverDefaults ==
  CanCall =>
    \A key \in SeedKeys :
      /\ hasOwnProperty(Unseeded, key) =>
            Store_get(Called, key) = Prop(Unseeded, key)
      /\ \A val \in Values \ {Undefined} :
            Store_get(Store_set(Called, key, val), key) = val
      /\ (~hasOwnProperty(Unseeded, key) /\ hasOwnProperty(defaults, key)) =>
            Store_get(Called, key) = Prop(defaults, key)

\* the file's a and the default b, read through the store
C18_Witness ==
  /\ defaults = Obj2(a, Str("d"), b, Str("e"))
  /\ file = File(Obj1(a, Str("f")))
  /\ _data = Obj2(a, Str("f"), b, Str("e"))
  /\ lastMutation = Undefined

(***************************************************************************)
(* C19: the defaults are merged into the document once and never again.    *)
(* After del(key) of a key seeded by the defaults, has(key) is false, in   *)
(* the store as del leaves it and after the next read of it; after clear() *)
(* and after data = {} the document is empty.                              *)
(***************************************************************************)
C19_DefaultsMergedOnce ==
  CanCall =>
    /\ \A key \in SeedKeys :
          hasOwnProperty(defaults, key) =>
            LET after == Store_del(Called, key)
            IN /\ ~Store_has(after, key)
               /\ ~Store_has(dataGet(after), key)
    /\ View(Store_clear(Called)) = Obj(EmptyMap)
    /\ View(dataSet(Called, Obj(EmptyMap))) = Obj(EmptyMap)

(***************************************************************************)
(* C20: load() returns the mapping the file's JSON parses to when the file *)
(* exists and parses; it returns an empty mapping and raises nothing when  *)
(* the file is absent and when its content is not valid JSON, and apart    *)
(* from the file itself the store after load() is the same in both cases.  *)
(***************************************************************************)
C20_LoadTolerant ==
  CanCall =>
    LET after == Store_load(Called)
        absent == Store_load([Called EXCEPT !.file = Absent])
        corrupt == Store_load([Called EXCEPT !.file = Corrupt])
    IN /\ after.thrown = "none"
       /\ after._data = load(Called)
       /\ file.t = "file" => load(Called) = file.v
       /\ file \in {Absent, Corrupt} => load(Called) = Obj(EmptyMap)
       /\ load([Called EXCEPT !.file = Corrupt]) = load([Called EXCEPT !.file = Absent])
       /\ [corrupt EXCEPT !.file = Absent] = absent

\* load() has answered {} over a file that does not parse
C20_Witness ==
  /\ file = Corrupt
  /\ _data = Obj(EmptyMap)
  /\ defaults # Obj(EmptyMap)
  /\ timers = <<>>
  /\ lastMutation = Undefined

(***************************************************************************)
(* C21: while the document is not materialized and the file exists but may *)
(* not be read, each of get, has, clone, json, set, del and union raises   *)
(* the permission error and leaves the store as it was: the document stays *)
(* unmaterialized, the file and the timers are untouched, the next access  *)
(* is denied again, and once the file can be read the next access loads it.*)
(***************************************************************************)
C21_PermissionErrorRaised ==
  (CanCall /\ Falsy(_data) /\ file.t = "unreadable") =>
    \A after \in
        {dataGet(Called)}
        \cup {Store_set(Called, key, val) : key \in FewKeys, val \in FewValues}
        \cup {Store_del(Called, key) : key \in FewKeys}
        \cup {Store_union(Called, key, rest) : key \in FewKeys, rest \in FewRests} :
      /\ after.thrown = "EACCES"
      /\ after._data = _data
      /\ after.file = file
      /\ after.timers = timers
      /\ after.timeouts_save = timeouts_save
      /\ denied(after)
      /\ View([after EXCEPT !.file = File(file.v)]) = Spread(defaults, file.v)

\* a call has raised the permission error and the document is still unloaded
C21_Witness ==
  /\ thrown = "EACCES"
  /\ _data = Undefined
  /\ file = Unreadable(Obj1(a, Str("f")))
  /\ timers = <<>>

(***************************************************************************)
(* C22: get, has, hasOwn, clone and json, whose whole effect on the store  *)
(* is one read of store.data, leave the file as it is, leave the timers    *)
(* and the handle of the pending write as they are, and leave store.data   *)
(* and everything get, has and hasOwn resolve in it as they were; also     *)
(* when the read is the one that loads an absent or unparsable file.       *)
(***************************************************************************)
C22_ReadsWriteNothing ==
  CanCall =>
    LET after == dataGet(Called)
    IN /\ after.file = file
       /\ after.timers = timers
       /\ after.timeouts_save = timeouts_save
       /\ after.thrown = "none"
       /\ View(after) = View(Called)
       /\ \A key \in SeedKeys :
            /\ Store_get(after, key) = Store_get(Called, key)
            /\ Store_has(after, key) = Store_has(Called, key)
            /\ Store_hasOwn(after, key) = Store_hasOwn(Called, key)

\* a read has materialized the defaults over a file that does not parse, and
\* the file is as it was
C22_Witness ==
  /\ file = Corrupt
  /\ _data = defaults
  /\ _data = Obj2(a, Str("d"), b, Str("e"))
  /\ timers = <<>>
  /\ lastMutation = Undefined

(***************************************************************************)
(* C23: when writeFile() returns no timer is armed, whether it ran as the  *)
(* callback of the timer, inside save() with debounce zero, or as a call   *)
(* of the program while a timer was pending.                               *)
(***************************************************************************)
C23_WriteFileLeavesIdle ==
  /\ \A h \in DOMAIN timers : timers[h] = 0 => onTimeout(This, h).timers = <<>>
  /\ CanCall =>
       /\ debounce = 0 => save(Called).timers = <<>>
       /\ writeFile(Called).timers = <<>>

(***************************************************************************)
(* C24: immediately after clear(), clone() returns an empty mapping, has   *)
(* is false for every key, and the next write stores an empty document     *)
(* (with a namespace, an empty sub-document under the namespace).          *)
(***************************************************************************)
C24_ClearEmpties ==
  CanCall =>
    LET after == Store_clear(Called)
        written == writeFile(after).file
    IN /\ Store_clone(after) = Obj(EmptyMap)
       /\ \A key \in FewKeys : ~Store_has(after, key)
       /\ written.t = "file"
       /\ IF namespace = <<>> THEN written.v = Obj(EmptyMap)
          ELSE Prop(written.v, namespace) = Obj(EmptyMap)

(***************************************************************************)
(* C25: with a namespace, set, union, del and clear leave every top-level  *)
(* property of the root document other than the namespace as it was,       *)
(* present with the same value, and get resolves its key inside the        *)
(* sub-document under the namespace.                                       *)
(***************************************************************************)
\* the sub-document of the namespace in the document of w
SubDocument(w) == Prop(View(w), namespace)

\* the document of w has the top-level properties of Document, other than
\* the namespace, with their values
SiblingsKept(w) ==
  \A p \in (DOMAIN Document.v) \ {namespace} :
    hasOwnProperty(View(w), p) /\ Prop(View(w), p) = Prop(Document, p)

C25_NamespaceIsolates ==
  (CanCall /\ namespace # <<>>) =>
    /\ \A after \in
           {Store_set(Called, key, val) : key \in FewKeys, val \in FewValues}
           \cup {Store_del(Called, key) : key \in FewKeys}
           \cup {Store_union(Called, key, rest) : key \in FewKeys, rest \in FewRests}
           \cup {Store_clear(Called)} :
         SiblingsKept(after)
    /\ \A key \in FewKeys :
         Store_get(Called, key) = Follow(SubDocument(Called), split(key))

(***************************************************************************)
(* C26: set(obj) stores each property name of obj as one literal top-level *)
(* key: the root gets no other new property (none named by a first         *)
(* segment), a value other than undefined is the value of the property     *)
(* literally named so, get of the escaped key a\.b.c after                 *)
(* set({'a.b': {c: 'd'}}) is 'd', and a name written with an escaped dot   *)
(* gives the same store as the name written with a plain dot.              *)
(***************************************************************************)
\* the property name a key of one segment names: each backslash before a dot
\* dropped
RECURSIVE LiteralName(_)
LiteralName(k) ==
  IF k = <<>> THEN <<>>
  ELSE IF Len(k) >= 2 /\ k[1] = Backslash /\ k[2] = Dot
  THEN <<Dot>> \o LiteralName(SubSeq(k, 3, Len(k)))
  ELSE <<k[1]>> \o LiteralName(Tail(k))

\* entry i of entries is the last one for its literal name
LastFor(entries, i) ==
  \A j \in (i + 1)..Len(entries) :
    LiteralName(entries[j][1]) # LiteralName(entries[i][1])

C26_SetObjectLiteralKeys ==
  CanCall =>
    /\ \A entries \in Mappings :
         LET after == Store_setObject(Called, entries)
         IN /\ after.thrown = "none"
            /\ DOMAIN View(after).v \subseteq
                 (DOMAIN Document.v)
                   \cup {LiteralName(entries[i][1]) : i \in 1..Len(entries)}
            /\ \A i \in 1..Len(entries) :
                 (LastFor(entries, i) /\ entries[i][2] # Undefined) =>
                   /\ hasOwnProperty(View(after), LiteralName(entries[i][1]))
                   /\ Prop(View(after), LiteralName(entries[i][1])) = entries[i][2]
    /\ LET after == Store_setObject(Called, << <<a_b, Obj1(c, Str("d"))>> >>)
       IN /\ Store_get(after, aEb_c) = Str("d")
          /\ hasOwnProperty(View(after), a) = hasOwnProperty(Document, a)
          /\ after = Store_setObject(Called, << <<aEb, Obj1(c, Str("d"))>> >>)

\* set({'a.b': {c: 'd'}}) on a store with nothing else in it
C26_Witness == _data = Obj1(a_b, Obj1(c, Str("d")))

(***************************************************************************)
(* C27: set(list) with a list of mappings does not throw and leaves the    *)
(* document as set(mapping) called for each mapping of the list in order   *)
(* leaves it, so that the last value given for a key is the one stored.    *)
(***************************************************************************)
\* set(mapping) called for each mapping of list in turn
RECURSIVE SetInOrder(_, _)
SetInOrder(w, list) ==
  IF list = <<>> THEN w ELSE SetInOrder(Store_setObject(w, list[1]), Tail(list))

C27_SetListInOrder ==
  CanCall =>
    \A list \in MappingLists :
      LET after == Store_setOther(Called)
      IN /\ after.thrown = "none"
         /\ View(after) = View(SetInOrder(Called, list))

(***************************************************************************)
(* C28: set(key, val) with a string key and a value other than undefined   *)
(* does not throw whatever the document holds; along the segments of the   *)
(* key every mapping it passes through keeps its other properties, every   *)
(* value on the way that is not a mapping, or is absent, becomes a mapping *)
(* holding the next segment only, and the last segment holds val.          *)
(***************************************************************************)
C28_SetAnyShape ==
  CanCall =>
    \A key \in Keys, val \in Values \ {Undefined} :
      LET segs == split(prop(key))
          after == Store_set(Called, key, val)
      IN /\ after.thrown = "none"
         /\ Follow(View(after), segs) = val
         /\ \A i \in 0..(Len(segs) - 1) :
              LET was == Follow(Document, SubSeq(segs, 1, i))
                  now == Follow(View(after), SubSeq(segs, 1, i))
              IN /\ isObject(now)
                 /\ segs[i + 1] \in DOMAIN now.v
                 /\ IF isObject(was)
                    THEN /\ DOMAIN now.v = (DOMAIN was.v) \cup {segs[i + 1]}
                         /\ \A p \in (DOMAIN was.v) \ {segs[i + 1]} : now.v[p] = was.v[p]
                    ELSE DOMAIN now.v = {segs[i + 1]}

\* set('a.b', 'x') beside the property literally named 'a.b' of the file
C28_Witness == _data = Obj2(a, Obj1(b, Str("x")), a_b, Str("f"))

(***************************************************************************)
(* C29: get, has, hasOwn and union with a key that is not a string, del    *)
(* with a key that is neither a string nor a list, and set with a key that *)
(* is neither a string nor a mapping throw an assertion error and leave    *)
(* the document, the file and the timers as they were; del with a list     *)
(* deletes each element in order and throws at the first element that is   *)
(* not a string; with a string key none of them throws.                    *)
(***************************************************************************)
\* the key is rejected: the error is thrown and nothing else has changed
Rejected(w) == w = Throw(Called, "AssertionError")

C30_LiveDocument ==
  (CanCall /\ live # "none") =>
    LET assigned == Store_assignHeld(Called, b, Str("y"))
        mutated == Store_set(assigned, a, Str("x"))
    IN /\ Store_get(assigned, b) = Str("y")
       /\ Prop(View(mutated), b) = Str("y")
       /\ debounce = 0 => Prop(mutated.file.v, b) = Str("y")

(***************************************************************************)
(* C33: with the empty string as key, set, get, has, hasOwn and del do not *)
(* throw, and after set('', val) with a value other than undefined and     *)
(* null either has('') is false, or has('') and hasOwn('') are both true   *)
(* and del('') removes the entry.                                          *)
(***************************************************************************)
C33_EmptyKeyConsistent ==
  CanCall =>
    \A val \in {Str("x")} :
      LET after == Store_set(Called, <<>>, val)
          removed == Store_del(after, <<>>)
      IN /\ after.thrown = "none"
         /\ removed.thrown = "none"
         /\ \/ ~Store_has(after, <<>>)
            \/ /\ Store_has(after, <<>>)
               /\ Store_hasOwn(after, <<>>)
               /\ ~Store_has(removed, <<>>)

(***************************************************************************)
(* C34: after set(key, val) with a value other than undefined, one         *)
(* del(key) removes the entry just written: has(key) and hasOwn(key) are   *)
(* false afterwards, for every key and every document.                     *)
(***************************************************************************)
C34_DelRemovesWhatSetWrote ==
  CanCall =>
    \A key \in Keys \ {<<>>}, val \in Values \ {Undefined} :
      LET removed == Store_del(Store_set(Called, key, val), key)
      IN /\ ~Store_has(removed, key)
         /\ ~Store_hasOwn(removed, key)

(***************************************************************************)
(* C35: when the value at a is not a mapping (null, false, 0, the empty    *)
(* string, another string or a list), get of the longer path a.b is        *)
(* undefined and has of it is false.                                       *)
(***************************************************************************)
C35_NothingBelowScalars ==
  (CanCall /\ hasOwnProperty(Document, a) /\ ~isObject(Prop(Document, a))) =>
    /\ Store_get(Called, a_b) = Undefined
    /\ ~Store_has(Called, a_b)

(***************************************************************************)
(* C40: when every value on the way of key p, short of its last segment,   *)
(* is absent or a mapping, set(p, val) with a value other than undefined   *)
(* leaves get(q) and hasOwn(q) as they were for every key q whose segments *)
(* are neither the first segments of p nor continue those of p.            *)
(***************************************************************************)
\* the segments of key p, short of the last, lead through mappings or nothing
WayIsClear(p) ==
  \A i \in 1..(Len(split(prop(p))) - 1) :
    LET on == Follow(Document, SubSeq(split(prop(p)), 1, i))
    IN on = Undefined \/ isObject(on)

\* neither of the keys p and q continues the segments of the other
Unrelated(p, q) ==
  /\ ~IsPrefix(split(p), split(q))
  /\ ~IsPrefix(split(q), split(p))

C40_SetFrame ==
  CanCall =>
    \A p \in Keys, q \in Keys, val \in Values \ {Undefined} :
      (WayIsClear(p) /\ Unrelated(p, q)) =>
        LET after == Store_set(Called, p, val)
        IN /\ Store_get(after, q) = Store_get(Called, q)
           /\ Store_hasOwn(after, q) = Store_hasOwn(Called, q)


(***************************************************************************)
(* C37: a mutation made after unlink() is never lost.  Its write is armed  *)
(* or made by the call itself, no callback is pending but its own, the     *)
(* callback writes the document of the mutation, the file ends up present  *)
(* with that document once the calls have ceased, and a file the store     *)
(* wrote goes away only by an unlink() called after the write.             *)
(***************************************************************************)
C37_MutationAfterUnlinkKept ==
  /\ [](CanCall =>
          \A key \in FewKeys, val \in FewValues \ {Undefined} :
            LET after == Store_set(unlink(Called), key, val)
            IN IF debounce = 0
               THEN after.file = File(json(after)) /\ after.timers = <<>>
               ELSE /\ DOMAIN after.timers = {after.timeouts_save}
                    /\ after.file = Absent
                    /\ onTimeout(after, after.timeouts_save).file = File(json(after)))
  /\ ((~calling /\ fileEvent = "unlink" /\ timeouts_save \in DOMAIN timers)
        ~> (fileEvent = "rewrite" /\ timers = <<>> /\ Persisted(This)))
  /\ [][(fileEvent \in {"write", "rewrite"} /\ file' = Absent)
          => fileEvent' = "unlink"]_vars

\* the store unlinked the file, a later burst armed a timer, and its callback
\* has written the document since
C37_Witness ==
  /\ debounce > 0
  /\ fileEvent = "rewrite"
  /\ burst = "written"
  /\ timers = <<>>
  /\ file # Absent
  /\ Persisted(This)


(***************************************************************************)
(* C38: when no timer is pending and the store last wrote the file (it did *)
(* not unlink it since), the file holds the serialization of the document; *)
(* and every write, by writeFile() or by the callback of a timer, stores   *)
(* the document as it is when the write is made.                           *)
(***************************************************************************)
C38_FileFollowsDocument ==
  /\ (timers = <<>> /\ fileEvent \in {"write", "rewrite"}) => Persisted(This)
  /\ writeFile(This).file = File(json(This))
  /\ \A h \in DOMAIN timers : onTimeout(This, h).file = File(json(This))

\* load() replaced the document while a timer was armed, and the callback
\* has written the document it found, which is not the one of the last save()
C38_Witness ==
  /\ debounce > 0
  /\ timers = <<>>
  /\ timeouts_save # 0
  /\ fileEvent = "write"
  /\ lastMutation # Undefined
  /\ lastMutation # View(This)
  /\ Persisted(This)


C31_RoundTrip ==
  LET fresh == [This EXCEPT !._data = Undefined, !.file = File(json(This))]
  IN /\ View(fresh) = Document
     /\ \A key \in {a, b, a_c} :
          /\ Store_get(fresh, key) = Store_get(This, key)
          /\ Store_has(fresh, key) = Store_has(This, key)
          /\ Store_hasOwn(fresh, key) = Store_hasOwn(This, key)


(***************************************************************************)
(* C32: a write that fails inside the callback of the timer does not end   *)
(* the process, and a write that fails inside a call with no debounce is   *)
(* raised to the caller of the mutating operation.                         *)
(***************************************************************************)
C32_WriteFailureHandled ==
  /\ ~crashed
  /\ (CanCall /\ debounce = 0 /\ writeThrows(Called)) =>
       \A val \in EdgeValues : Store_set(Called, a, val).thrown = "EACCES"


(***************************************************************************)
(* C36: the timer state of a store is its own.  With two stores over       *)
(* different paths, save() of one store arms its timer and leaves the      *)
(* pending timer of the other armed, and once the calls have ceased a      *)
(* pending write of either store ends with that store's file holding that  *)
(* store's document.                                                       *)
(***************************************************************************)
C36_TimersPerInstance ==
  /\ [](CanCall =>
          /\ LET after == save(PeerThis)
             IN /\ after.timeouts_save \in DOMAIN after.timers
                /\ timeouts_save \in DOMAIN timers
                     => Mirror(timeouts_save) \in DOMAIN after.timers
          /\ LET after == save(Called)
             IN /\ after.timeouts_save \in DOMAIN after.timers
                /\ Mirror(peer.timeouts_save) \in DOMAIN timers
                     => Mirror(peer.timeouts_save) \in DOMAIN after.timers)
  /\ ((~calling /\ timeouts_save \in DOMAIN timers) ~> Persisted(This))
  /\ ((~calling /\ Mirror(peer.timeouts_save) \in DOMAIN timers)
        ~> Persisted(PeerThis))

\* both stores had a timer pending at once, and each file holds the document
\* of its own store, which differ
C36_Witness ==
  /\ ~calling
  /\ timers = <<>>
  /\ timeouts_save # 0
  /\ peer.timeouts_save # 0
  /\ fileEvent = "write"
  /\ peer.fileEvent = "write"
  /\ Persisted(This)
  /\ Persisted(PeerThis)
  /\ file # peer.file

=============================================================================
